---- MODULE Spec2Model ----
(***************************************************************************)
(* Protocol compatibility and streaming bridge layer of the A3S Code Agent *)
(* TypeScript SDK.                                                         *)
(*                                                                         *)
(*   - Stream Adapter   : A3sClient.streamToAsyncIterable (ts/client.ts)   *)
(*   - Message Normalizer / Schema Converter : openai-compat               *)
(*                                                                         *)
(* The stream handle `call` is an event emitter: once(kind, f) registers a *)
(* one-shot listener, an emission of a kind runs and removes every         *)
(* listener registered for that kind.  A JavaScript promise settles at     *)
(* most once: resolve/reject on a settled promise are no-ops.              *)
(***************************************************************************)
EXTENDS Integers, Sequences, FiniteSets, TLC

VARIABLES
    listeners,   \* call's once-listeners: kind -> sequence of next() ids, in registration order
    promises,    \* promises[i] is the promise returned by the i-th next() call
    emitted,     \* the items the transport has emitted as 'data', in order
    transport,   \* "open", "ended" ('end' was emitted) or "errored" ('error' was emitted)
    transportError, \* the error emitted with 'error', NoError before
    consumer,    \* the for-await loop over the iterable: "iterating", "completed", "threw", "abandoned"
    thrown,      \* the error with which the for-await loop threw, NoError otherwise
    overlapped,  \* TRUE once a next() was issued while another one was outstanding
    awaited,     \* the next() call whose promise the for-await loop awaits, 0 when none
    heap,        \* message objects by identity: heap[o] is the object with identity o
    input,       \* the argument of normalizeMessages: a sequence of object identities
    output,      \* the array normalizeMessages returned: a sequence of object identities
    inputHeap,   \* the input objects as they were when normalizeMessages was called
    pc,          \* "call" before normalizeMessages is applied, "done" after, "sent" after a client call
    method,      \* the client method that handed the messages to the transport, "none" before
    convOp,      \* the converter function that was applied, "idle" before
    convArg,     \* the argument it was applied to, in a record naming what it is
    convRes,     \* the value it returned, in a record naming what it is
    unary,       \* unary[i] is the i-th unary call made through promisify
    chat         \* the async generator of streamChatCompletion: its requests and results

streamVars == <<listeners, promises, emitted, transport, transportError,
                consumer, thrown, overlapped, awaited>>
normVars   == <<heap, input, output, inputHeap, pc>>
clientVars == <<method>>
convVars   == <<convOp, convArg, convRes>>
unaryVars  == <<unary>>
chatVars   == <<chat>>
vars       == <<listeners, promises, emitted, transport, transportError,
                consumer, thrown, overlapped, awaited, heap, input, output, inputHeap, pc,
                method, convOp, convArg, convRes, unary, chat>>

-----------------------------------------------------------------------------
(* Bounds of the model *)

\* number of next() calls made on one iterator
MaxCalls == 4
\* number of 'data' emissions of one stream
MaxItems == 3
\* length of the list handed to normalizeMessages
MaxMsgs == 2
\* number of content parts of one OpenAI message
MaxParts == 3
\* number of tool calls of one native response
MaxToolCalls == 2
\* number of unary calls made through promisify
MaxUnaryCalls == 2
\* number of next() requests made on one generator of streamChatCompletion
MaxChatCalls == 3
\* number of chunks the stream under one generator emits
MaxChunks == 2
\* number of return() / throw() requests one generator has queued
MaxCloses == 2

Items  == {"x1", "x2", "x3"}
Errors == {"e1", "e2"}
Kinds  == {"data", "end", "error"}

Undefined == "undefined"
NoError   == "none"

Range(s) == {s[i] : i \in DOMAIN s}

-----------------------------------------------------------------------------
(* Stream Adapter *)

\* new Promise(...): the promise before any listener has run
PendingPromise ==
    [state |-> "pending", value |-> Undefined, done |-> FALSE, reason |-> NoError]

\* resolve(result) of the promise executor: settles a pending promise, no-op otherwise
Resolve(p, result) ==
    IF p.state = "pending"
    THEN [state |-> "fulfilled", value |-> result.value, done |-> result.done,
          reason |-> NoError]
    ELSE p

\* reject(error) of the promise executor: settles a pending promise, no-op otherwise
Reject(p, error) ==
    IF p.state = "pending"
    THEN [state |-> "rejected", value |-> Undefined, done |-> FALSE, reason |-> error]
    ELSE p

\* call.once('data', (data) => resolve({ value: data, done: false }))
OnData(p, data) == Resolve(p, [value |-> data, done |-> FALSE])

\* a faulty variant: 'end' reported as one more item
OnEndNotDone(p) == Resolve(p, [value |-> Undefined, done |-> FALSE])

\* call.once('end', () => resolve({ value: undefined, done: true }))
OnEnd(p) == Resolve(p, [value |-> Undefined, done |-> TRUE])

\* a faulty variant: the transport error replaced by another error
OnErrorWrapped(p, error) == Reject(p, "wrapped")

\* call.once('error', (error) => reject(error))
OnError(p, error) == Reject(p, error)

\* The listener the i-th next() registered for `kind`, applied to the emitted payload
RunListener(kind, p, payload) ==
    CASE kind = "data"  -> OnData(p, payload)
      [] kind = "end"   -> OnEnd(p)
      [] kind = "error" -> OnError(p, payload)

\* a faulty variant: an emission is handed to the listener registered first only
AfterEmitFirstOnly(kind, payload) ==
    [i \in DOMAIN promises |->
        IF listeners[kind] # <<>> /\ i = listeners[kind][1]
        THEN RunListener(kind, promises[i], payload)
        ELSE promises[i]]

\* call.emit(kind, payload): every once-listener of the kind runs, each on the
\* promise of the next() call that registered it
AfterEmit(kind, payload) ==
    [i \in DOMAIN promises |->
        IF i \in Range(listeners[kind])
        THEN RunListener(kind, promises[i], payload)
        ELSE promises[i]]

Pending(ps) == {i \in DOMAIN ps : ps[i].state = "pending"}

\* a faulty variant: next() answers at once with the item emitted last, if any
NextCallReplaysLast ==
    /\ Len(promises) < MaxCalls
    /\ promises' = Append(promises, IF emitted # <<>>
                                    THEN OnData(PendingPromise, emitted[Len(emitted)])
                                    ELSE PendingPromise)
    /\ listeners' = [k \in Kinds |-> Append(listeners[k], Len(promises) + 1)]
    /\ overlapped' = (overlapped \/ Pending(promises) # {})
    /\ UNCHANGED <<emitted, transport, transportError, consumer, thrown>>

\* iterator.next(): a new promise whose executor registers the three once-listeners
NextCall ==
    /\ Len(promises) < MaxCalls
    /\ promises' = Append(promises, PendingPromise)
    /\ listeners' = [k \in Kinds |-> Append(listeners[k], Len(promises) + 1)]
    /\ overlapped' = (overlapped \/ Pending(promises) # {})
    /\ UNCHANGED <<emitted, transport, transportError, consumer, thrown>>

\* the transport emits 'data' with an item
EmitData(d) ==
    /\ transport = "open"
    /\ Len(emitted) < MaxItems
    /\ emitted' = Append(emitted, d)
    /\ promises' = AfterEmit("data", d)
    /\ listeners' = [listeners EXCEPT !["data"] = <<>>]
    /\ UNCHANGED <<transport, transportError, consumer, thrown, overlapped, awaited>>

\* the transport emits 'end'
EmitEnd ==
    /\ transport = "open"
    /\ transport' = "ended"
    /\ promises' = AfterEmit("end", Undefined)
    /\ listeners' = [listeners EXCEPT !["end"] = <<>>]
    /\ UNCHANGED <<emitted, transportError, consumer, thrown, overlapped, awaited>>

\* the transport emits 'error' with an error
EmitError(e) ==
    /\ transport = "open"
    /\ transport' = "errored"
    /\ transportError' = e
    /\ promises' = AfterEmit("error", e)
    /\ listeners' = [listeners EXCEPT !["error"] = <<>>]
    /\ UNCHANGED <<emitted, consumer, thrown, overlapped, awaited>>

\* the for-await loop starts: it calls next() and awaits the promise
LoopNext ==
    /\ consumer = "iterating"
    /\ awaited = 0
    /\ NextCall
    /\ awaited' = Len(promises) + 1

\* next() called by other code than the loop
DirectNext ==
    /\ NextCall
    /\ UNCHANGED awaited

\* the loop continues after the promise it awaits has settled, in a later microtask:
\* with a value the body runs and the loop calls next() again, with done the loop
\* ends, a rejection is thrown out of the loop
LoopStep ==
    /\ consumer = "iterating"
    /\ awaited # 0
    /\ promises[awaited].state # "pending"
    /\ \/ /\ promises[awaited].state = "fulfilled" /\ ~promises[awaited].done
          /\ NextCall
          /\ awaited' = Len(promises) + 1
       \/ /\ promises[awaited].state = "fulfilled" /\ promises[awaited].done
          /\ consumer' = "completed"
          /\ awaited' = 0
          /\ UNCHANGED <<listeners, promises, emitted, transport, transportError,
                         thrown, overlapped>>
       \/ /\ promises[awaited].state = "rejected"
          /\ consumer' = "threw"
          /\ thrown' = promises[awaited].reason
          /\ awaited' = 0
          /\ UNCHANGED <<listeners, promises, emitted, transport, transportError,
                         overlapped>>

\* break, or an exception thrown, in the body of the for-await loop: the loop calls
\* the iterator's return(), which the adapter's iterator does not define
Abandon ==
    /\ consumer = "iterating"
    /\ awaited # 0
    /\ promises[awaited].state = "fulfilled"
    /\ ~promises[awaited].done
    /\ consumer' = "abandoned"
    /\ awaited' = 0
    /\ UNCHANGED <<listeners, promises, emitted, transport, transportError,
                   thrown, overlapped>>

NormIdle ==
    /\ heap = <<>>
    /\ input = <<>>
    /\ output = <<>>
    /\ inputHeap = <<>>
    /\ pc = "idle"

ConvIdle ==
    /\ method = "none"
    /\ convOp = "idle"
    /\ convArg = [none |-> TRUE]
    /\ convRes = [none |-> TRUE]

\* no unary call was made
UnaryIdle == unary = <<>>

\* streamChatCompletion was not called
ChatIdle == chat = [called |-> FALSE]

InitStream ==
    /\ listeners = [k \in Kinds |-> <<>>]
    /\ promises = <<>>
    /\ emitted = <<>>
    /\ transport = "open"
    /\ transportError = NoError
    /\ consumer = "iterating"
    /\ thrown = NoError
    /\ overlapped = FALSE
    /\ awaited = 0
    /\ NormIdle
    /\ ConvIdle
    /\ UnaryIdle
    /\ ChatIdle

NextStream ==
    \/ LoopNext /\ UNCHANGED <<normVars, clientVars, convVars, unaryVars, chatVars>>
    \/ DirectNext /\ UNCHANGED <<normVars, clientVars, convVars, unaryVars, chatVars>>
    \/ LoopStep /\ UNCHANGED <<normVars, clientVars, convVars, unaryVars, chatVars>>
    \/ (\E d \in Items : EmitData(d)) /\ UNCHANGED <<normVars, clientVars, convVars, unaryVars, chatVars>>
    \/ EmitEnd /\ UNCHANGED <<normVars, clientVars, convVars, unaryVars, chatVars>>
    \/ (\E e \in Errors : EmitError(e)) /\ UNCHANGED <<normVars, clientVars, convVars, unaryVars, chatVars>>
    \/ Abandon /\ UNCHANGED <<normVars, clientVars, convVars, unaryVars, chatVars>>

SpecStream == InitStream /\ [][NextStream]_vars

-----------------------------------------------------------------------------
(* Schema Converter and Message Normalizer (openai-compat)                  *)
(*                                                                          *)
(* A message object is a record; an absent optional field is the empty      *)
(* sequence and a present one a one-element sequence.  content is tagged by *)
(* what typeof / Array.isArray report of it.  A metadata map is the set of  *)
(* its <<key, value>> entries.                                              *)

Absent == <<>>
Some(v) == <<v>>

StringContent(s) == [type |-> "string", str |-> s, parts |-> <<>>]
ArrayContent(ps) == [type |-> "array", str |-> "", parts |-> ps]
NullContent      == [type |-> "null", str |-> "", parts |-> <<>>]

TextPart(t)  == [type |-> "text", text |-> t]
ImagePart(u) == [type |-> "image_url", text |-> u]

OpenAIRoles == {"user", "assistant", "system", "tool", "function"}
NativeRoles == {"user", "assistant", "system", "tool"}
LegacyRoles == {"ROLE_USER"}
\* role strings that are neither OpenAI roles nor legacy tokens
OtherRoles  == {"developer", "USER"}

\* messages written in the native shape { role, content, metadata? }
NativeInputs ==
    [role : NativeRoles \cup LegacyRoles \cup OtherRoles,
     content : {StringContent("hi")},
     name : {Absent},
     metadata : {Absent, Some({<<"k", "v">>})}]

\* messages written in the OpenAI shape { role, content, name? }
OpenAIInputs ==
    [role : OpenAIRoles,
     content : {StringContent("hi"),
                ArrayContent(<<TextPart("a"), ImagePart("u"), TextPart("b")>>),
                NullContent},
     name : {Absent, Some("bob")},
     metadata : {Absent}]

MsgObjects == NativeInputs \cup OpenAIInputs

\* a faulty variant: the roles are mapped to the legacy uppercase tokens
openAIRoleToA3SLegacy(role) ==
    CASE role = "user"      -> "ROLE_USER"
      [] role = "assistant" -> "ROLE_ASSISTANT"
      [] role = "system"    -> "ROLE_SYSTEM"
      [] role = "tool"      -> "ROLE_TOOL"
      [] role = "function"  -> "ROLE_TOOL"
      [] OTHER              -> "ROLE_UNKNOWN"

\* openAIRoleToA3S: the switch over the OpenAI role
openAIRoleToA3S(role) ==
    CASE role = "user"      -> "user"
      [] role = "assistant" -> "assistant"
      [] role = "system"    -> "system"
      [] role = "tool"      -> "tool"
      [] role = "function"  -> "tool"
      [] OTHER              -> "user"

\* a faulty variant: the parts are not filtered by type
TextsOfAllParts(parts) == [i \in DOMAIN parts |-> parts[i].text]

\* parts.filter(part => part.type === 'text').map(part => part.text)
TextsOf(parts) ==
    LET texts == SelectSeq(parts, LAMBDA part : part.type = "text")
    IN  [i \in DOMAIN texts |-> texts[i].text]

\* Array.prototype.join('\n')
RECURSIVE JoinNewline(_)
JoinNewline(texts) ==
    IF texts = <<>> THEN ""
    ELSE IF Len(texts) = 1 THEN texts[1]
    ELSE texts[1] \o "\n" \o JoinNewline(Tail(texts))

\* msg.name ? { name: msg.name } : undefined
NameMetadata(name) ==
    IF name # Absent /\ name[1] # "" THEN Some({<<"name", name[1]>>}) ELSE Absent

\* the object literal openAIMessageToA3S returns
openAIMessageToA3S(msg) ==
    [role |-> openAIRoleToA3S(msg.role),
     content |->
        CASE msg.content.type = "string" -> StringContent(msg.content.str)
          [] msg.content.type = "array" ->
                StringContent(JoinNewline(TextsOf(msg.content.parts)))
          [] OTHER -> StringContent(""),
     name |-> Absent,
     metadata |-> NameMetadata(msg.name)]

\* a faulty variant: the 'function' alias is not recognised
isOpenAIFormatNoAlias(msg) == msg.role \in {"user", "assistant", "system", "tool"}

isOpenAIFormat(msg) == msg.role \in {"user", "assistant", "system", "tool", "function"}

\* normalizeMessage on the object with identity o of heap h: the heap afterwards and
\* the identity of the object returned
normalizeMessage(h, o) ==
    IF isOpenAIFormat(h[o])
    THEN [heap |-> Append(h, openAIMessageToA3S(h[o])), ref |-> Len(h) + 1]
    ELSE [heap |-> h, ref |-> o]

\* Array.prototype.map: the callback is applied to the elements in index order and
\* its results are collected in that order
RECURSIVE ArrayMapNormalize(_, _, _)
ArrayMapNormalize(h, messages, out) ==
    IF Len(out) = Len(messages)
    THEN [heap |-> h, result |-> out]
    ELSE LET r == normalizeMessage(h, messages[Len(out) + 1])
         IN  ArrayMapNormalize(r.heap, messages, Append(out, r.ref))

\* a faulty variant: only the messages classified as OpenAI-shaped are kept
normalizeMessagesFiltered(h, messages) ==
    ArrayMapNormalize(h, SelectSeq(messages, LAMBDA o : isOpenAIFormat(h[o])), <<>>)

\* messages.map(normalizeMessage)
normalizeMessages(h, messages) == ArrayMapNormalize(h, messages, <<>>)

\* a caller hands its list to normalizeMessages
CallNormalize ==
    /\ pc = "call"
    /\ LET r == normalizeMessages(heap, input)
       IN  /\ heap' = r.heap
           /\ output' = r.result
    /\ pc' = "done"
    /\ UNCHANGED <<input, inputHeap>>

MsgLists == UNION {[1..n -> MsgObjects] : n \in 0..MaxMsgs}

StreamIdle ==
    /\ listeners = [k \in Kinds |-> <<>>]
    /\ promises = <<>>
    /\ emitted = <<>>
    /\ transport = "open"
    /\ transportError = NoError
    /\ consumer = "iterating"
    /\ thrown = NoError
    /\ overlapped = FALSE
    /\ awaited = 0

InitNorm ==
    /\ StreamIdle
    /\ ConvIdle
    /\ UnaryIdle
    /\ ChatIdle
    /\ heap \in MsgLists
    /\ input = [i \in 1..Len(heap) |-> i]
    /\ inputHeap = heap
    /\ output = <<>>
    /\ pc = "call"

NextNorm == CallNormalize /\ UNCHANGED <<streamVars, clientVars, convVars, unaryVars, chatVars>>

SpecNorm == InitNorm /\ [][NextNorm]_vars

\* a caller hands the list normalizeMessages returned to normalizeMessages again
CallNormalizeAgain ==
    /\ pc = "done"
    /\ LET r == normalizeMessages(heap, output)
       IN  /\ heap' = r.heap
           /\ convRes' = [messages |-> [i \in DOMAIN r.result |-> r.heap[r.result[i]]]]
    /\ convOp' = "normalizeMessagesAgain"
    /\ convArg' = [messages |-> [i \in DOMAIN output |-> heap[output[i]]]]
    /\ pc' = "again"
    /\ UNCHANGED <<input, output, inputHeap>>

NextTwice ==
    \/ CallNormalize /\ UNCHANGED <<streamVars, clientVars, convVars, unaryVars, chatVars>>
    \/ CallNormalizeAgain /\ UNCHANGED <<streamVars, clientVars, unaryVars, chatVars>>

SpecTwice == InitNorm /\ [][NextTwice]_vars

-----------------------------------------------------------------------------
(* Schema Converter: native -> OpenAI, and the converter functions applied   *)
(* to single values.  A JavaScript value that may be null or undefined is a  *)
(* record tagged with its type.                                              *)

JsNull      == [t |-> "null"]
JsUndefined == [t |-> "undefined"]
JsString(s) == [t |-> "string", v |-> s]
JsObject(o) == [t |-> "object", v |-> o]

\* a faulty variant: the case for 'tool' is missing
a3sRoleToOpenAINoTool(role) ==
    CASE role = "user"      -> "user"
      [] role = "assistant" -> "assistant"
      [] role = "system"    -> "system"
      [] OTHER              -> "user"

\* a faulty variant: an unknown role is passed through
a3sRoleToOpenAIPassThrough(role) == role

\* a3sRoleToOpenAI: the switch over the native role
a3sRoleToOpenAI(role) ==
    CASE role = "user"      -> "user"
      [] role = "assistant" -> "assistant"
      [] role = "system"    -> "system"
      [] role = "tool"      -> "tool"
      [] OTHER              -> "user"

\* msg.metadata?.name: the entry 'name' of the metadata map, absent when there is no
\* map or no such entry
MetadataName(metadata) ==
    IF metadata = Absent THEN Absent
    ELSE LET names == {kv \in metadata[1] : kv[1] = "name"}
         IN  IF names = {} THEN Absent ELSE Some((CHOOSE kv \in names : TRUE)[2])

\* a faulty variant: the display name is written into the content
a3sMessageToOpenAINamed(msg) ==
    LET name == MetadataName(msg.metadata)
    IN  [role |-> a3sRoleToOpenAI(msg.role),
         content |-> IF name # Absent /\ name[1] # ""
                     THEN StringContent(name[1] \o ": " \o msg.content.str)
                     ELSE msg.content,
         name |-> IF name # Absent /\ name[1] # "" THEN name ELSE Absent,
         metadata |-> Absent]

\* a3sMessageToOpenAI: { role, content } and name when msg.metadata?.name is truthy
a3sMessageToOpenAI(msg) ==
    LET name == MetadataName(msg.metadata)
    IN  [role |-> a3sRoleToOpenAI(msg.role),
         content |-> msg.content,
         name |-> IF name # Absent /\ name[1] # "" THEN name ELSE Absent,
         metadata |-> Absent]

\* openAIToolCallToA3S: the flat { id, name, arguments }
openAIToolCallToA3S(toolCall) ==
    [id |-> toolCall.id,
     name |-> toolCall.function.name,
     arguments |-> toolCall.function.arguments,
     result |-> Absent]

\* argument strings that parse as JSON, among those of the model
ValidJson == {"{}", "{\"path\":\"a\"}"}

\* a faulty variant: arguments that do not parse are replaced by an empty object
a3sToolCallToOpenAIValidated(toolCall) ==
    [id |-> toolCall.id,
     type |-> "function",
     function |-> [name |-> toolCall.name,
                   arguments |-> IF toolCall.arguments \in ValidJson
                                 THEN toolCall.arguments ELSE "{}"]]

\* a3sToolCallToOpenAI: { id, type: 'function', function: { name, arguments } }
a3sToolCallToOpenAI(toolCall) ==
    [id |-> toolCall.id,
     type |-> "function",
     function |-> [name |-> toolCall.name, arguments |-> toolCall.arguments]]

\* a faulty variant: the native error reason is reported as a normal stop
a3sFinishReasonToOpenAIErrorStop(reason) ==
    CASE reason = "stop"           -> JsString("stop")
      [] reason = "length"         -> JsString("length")
      [] reason = "tool_calls"     -> JsString("tool_calls")
      [] reason = "content_filter" -> JsString("content_filter")
      [] reason = "error"          -> JsString("stop")
      [] OTHER                     -> JsNull

\* a3sFinishReasonToOpenAI: the switch over the native finish reason
a3sFinishReasonToOpenAI(reason) ==
    CASE reason = "stop"           -> JsString("stop")
      [] reason = "length"         -> JsString("length")
      [] reason = "tool_calls"     -> JsString("tool_calls")
      [] reason = "content_filter" -> JsString("content_filter")
      [] OTHER                     -> JsNull

\* field || 0
OrZero(field) == IF field = Absent THEN 0 ELSE field[1]

\* a faulty variant: an absent usage becomes a usage of zeros
a3sUsageToOpenAIZeros(usage) ==
    JsObject([prompt_tokens |-> IF usage = Absent THEN 0 ELSE OrZero(usage[1].promptTokens),
              completion_tokens |-> IF usage = Absent THEN 0 ELSE OrZero(usage[1].completionTokens),
              total_tokens |-> IF usage = Absent THEN 0 ELSE OrZero(usage[1].totalTokens)])

\* a faulty variant: a missing total is computed from the other two counts
a3sUsageToOpenAISummed(usage) ==
    IF usage = Absent
    THEN JsUndefined
    ELSE JsObject([prompt_tokens |-> OrZero(usage[1].promptTokens),
                   completion_tokens |-> OrZero(usage[1].completionTokens),
                   total_tokens |-> IF usage[1].totalTokens = Absent
                                    THEN OrZero(usage[1].promptTokens)
                                            + OrZero(usage[1].completionTokens)
                                    ELSE usage[1].totalTokens[1]])

\* a3sUsageToOpenAI: if (!usage) return undefined; otherwise the renamed fields
a3sUsageToOpenAI(usage) ==
    IF usage = Absent
    THEN JsUndefined
    ELSE JsObject([prompt_tokens |-> OrZero(usage[1].promptTokens),
                   completion_tokens |-> OrZero(usage[1].completionTokens),
                   total_tokens |-> OrZero(usage[1].totalTokens)])

\* response.toolCalls.map(a3sToolCallToOpenAI)
ToolCallsToOpenAI(toolCalls) == [i \in DOMAIN toolCalls |-> a3sToolCallToOpenAI(toolCalls[i])]

\* a faulty variant: tool_calls is set whenever response.toolCalls is an array
ResponseMessageAlwaysToolCalls(response) ==
    LET message == IF response.message # Absent
                   THEN a3sMessageToOpenAI(response.message[1])
                   ELSE [role |-> "assistant", content |-> StringContent(""),
                         name |-> Absent, metadata |-> Absent]
    IN  [role |-> message.role,
         content |-> message.content,
         name |-> message.name,
         tool_calls |-> IF response.toolCalls # Absent
                        THEN Some(ToolCallsToOpenAI(response.toolCalls[1]))
                        ELSE Absent]

\* the message of the choice: the converted message, or the empty assistant message,
\* with tool_calls set when response.toolCalls is not empty
ResponseMessage(response) ==
    LET message == IF response.message # Absent
                   THEN a3sMessageToOpenAI(response.message[1])
                   ELSE [role |-> "assistant", content |-> StringContent(""),
                         name |-> Absent, metadata |-> Absent]
    IN  [role |-> message.role,
         content |-> message.content,
         name |-> message.name,
         tool_calls |-> IF response.toolCalls # Absent /\ Len(response.toolCalls[1]) > 0
                        THEN Some(ToolCallsToOpenAI(response.toolCalls[1]))
                        ELSE Absent]

\* a3sResponseToOpenAI(response, model = 'unknown'), with Date.now() = nowMs
a3sResponseToOpenAI(response, model, nowMs) ==
    [id |-> "chatcmpl-" \o response.sessionId,
     object |-> "chat.completion",
     created |-> nowMs \div 1000,
     model |-> IF model = Absent THEN "unknown" ELSE model[1],
     choices |-> <<[index |-> 0,
                    message |-> ResponseMessage(response),
                    finish_reason |-> a3sFinishReasonToOpenAI(response.finishReason)]>>,
     usage |-> a3sUsageToOpenAI(response.usage)]

\* a value used as a condition: undefined and the empty string are falsy
Truthy(opt) == opt # Absent /\ opt[1] # ""

\* the element of delta.tool_calls built from chunk.toolCall
ToolCallDelta(toolCall) ==
    [id |-> toolCall.id,
     type |-> "function",
     function |-> [name |-> toolCall.name, arguments |-> toolCall.arguments]]

\* a faulty variant: only the type done ends the stream, always with "stop"
ChunkFinishReasonDoneOnly(chunk) ==
    IF chunk.type = "done" THEN JsString("stop") ELSE JsNull

\* let finishReason = null; if (chunk.type === 'done' || chunk.finishReason) ...
ChunkFinishReason(chunk) ==
    IF chunk.type = "done" \/ Truthy(chunk.finishReason)
    THEN IF Truthy(chunk.finishReason)
         THEN a3sFinishReasonToOpenAI(chunk.finishReason[1])
         ELSE JsString("stop")
    ELSE JsNull

\* a faulty variant: content is copied from a chunk of any type
ChunkDeltaAnyContent(chunk) ==
    [content |-> IF chunk.content # "" THEN Some(chunk.content) ELSE Absent,
     tool_calls |-> IF chunk.type = "tool_call" /\ chunk.toolCall # Absent
                    THEN Some(<<ToolCallDelta(chunk.toolCall[1])>>)
                    ELSE Absent]

\* const delta = {}; content is set for a content chunk with truthy content,
\* tool_calls for a tool_call chunk with a tool call
ChunkDelta(chunk) ==
    [content |-> IF chunk.type = "content" /\ chunk.content # ""
                 THEN Some(chunk.content) ELSE Absent,
     tool_calls |-> IF chunk.type = "tool_call" /\ chunk.toolCall # Absent
                    THEN Some(<<ToolCallDelta(chunk.toolCall[1])>>)
                    ELSE Absent]

\* a3sChunkToOpenAI(chunk, model = 'unknown'), with Date.now() = nowMs
a3sChunkToOpenAI(chunk, model, nowMs) ==
    [id |-> "chatcmpl-" \o chunk.sessionId,
     object |-> "chat.completion.chunk",
     created |-> nowMs \div 1000,
     model |-> IF model = Absent THEN "unknown" ELSE model[1],
     choices |-> <<[index |-> 0,
                    delta |-> ChunkDelta(chunk),
                    finish_reason |-> ChunkFinishReason(chunk)]>>]

(* Inputs of the converter functions *)

RoleInputs == OpenAIRoles \cup LegacyRoles \cup OtherRoles \cup {"ROLE_UNKNOWN", "unknown", ""}

ContentParts == {TextPart("a"), TextPart("b"), TextPart(""), ImagePart("u")}

PartLists == UNION {[1..n -> ContentParts] : n \in 0..MaxParts}

ConvMessages ==
    [role : {"user", "tool", "function"},
     content : {StringContent("hi"), StringContent(""), StringContent("a\nb"), NullContent}
                \cup {ArrayContent(ps) : ps \in PartLists},
     name : {Absent, Some("bob")},
     metadata : {Absent}]

ToolCallInputs ==
    [id : {"call_1", "call_2"},
     name : {"read", "ls"},
     arguments : {"{}", "{\"path\":\"a\"}", "not json {"},
     result : {Absent, Some("ok")}]

FinishReasonInputs ==
    {"stop", "length", "tool_calls", "content_filter", "error", "FINISH_REASON_STOP", ""}

TokenCounts == {Absent, Some(0), Some(5)}

UsageInputs ==
    {Absent} \cup
    {Some(u) : u \in [promptTokens : TokenCounts, completionTokens : TokenCounts,
                      totalTokens : TokenCounts]}

\* options?.model: omitted, a label, the empty label
ModelLabels == {Absent, Some("gpt-4"), Some("")}

ResponseInputs ==
    [sessionId : {"s1", "s2"},
     message : {Absent,
                Some([role |-> "assistant", content |-> StringContent("hello"),
                      name |-> Absent, metadata |-> Absent]),
                Some([role |-> "tool", content |-> StringContent("out"),
                      name |-> Absent, metadata |-> Some({<<"name", "bob">>})])},
     toolCalls : {Absent, Some(<<>>),
                  Some(<<[id |-> "call_1", name |-> "read",
                          arguments |-> "not json {", result |-> Absent]>>)},
     usage : {Absent,
              Some([promptTokens |-> Some(3), completionTokens |-> Some(2),
                    totalTokens |-> Some(5)]),
              Some([promptTokens |-> Some(5), completionTokens |-> Absent,
                    totalTokens |-> Absent])},
     finishReason : {"stop", "tool_calls", "error"}]

ChunkTypes == {"content", "tool_call", "tool_result", "metadata", "done"}

ChunkInputs ==
    [type : ChunkTypes,
     sessionId : {"s1"},
     content : {"", "hi"},
     toolCall : {Absent, Some([id |-> "call_1", name |-> "read",
                               arguments |-> "{\"path\":\"a\"}", result |-> Absent])},
     finishReason : {Absent, Some(""), Some("stop"), Some("length"), Some("error")}]

Applied(op, arg, res) ==
    /\ convOp = "idle"
    /\ convOp' = op
    /\ convArg' = arg
    /\ convRes' = res

RoleRoundTrip(r) ==
    Applied("roleRoundTrip", [role |-> r], [role |-> a3sRoleToOpenAI(openAIRoleToA3S(r))])

CallA3sRoleToOpenAI(r) ==
    Applied("a3sRoleToOpenAI", [role |-> r], [role |-> a3sRoleToOpenAI(r)])

CallOpenAIMessageToA3S(msg) ==
    Applied("openAIMessageToA3S", [msg |-> msg], [msg |-> openAIMessageToA3S(msg)])

MessageRoundTrip(msg) ==
    Applied("messageRoundTrip", [msg |-> msg],
            [msg |-> openAIMessageToA3S(a3sMessageToOpenAI(openAIMessageToA3S(msg)))])

ToolCallRoundTrip(tc) ==
    Applied("toolCallRoundTrip", [toolCall |-> tc],
            [toolCall |-> openAIToolCallToA3S(a3sToolCallToOpenAI(tc))])

CallA3sFinishReasonToOpenAI(reason) ==
    Applied("a3sFinishReasonToOpenAI", [reason |-> reason],
            [finish_reason |-> a3sFinishReasonToOpenAI(reason)])

CallA3sUsageToOpenAI(usage) ==
    Applied("a3sUsageToOpenAI", [usage |-> usage], [usage |-> a3sUsageToOpenAI(usage)])

CallA3sResponseToOpenAI(response, model, nowMs) ==
    Applied("a3sResponseToOpenAI",
            [response |-> response, model |-> model, nowMs |-> nowMs],
            [completion |-> a3sResponseToOpenAI(response, model, nowMs)])

CallA3sChunkToOpenAI(chunk, model, nowMs) ==
    Applied("a3sChunkToOpenAI",
            [chunk |-> chunk, model |-> model, nowMs |-> nowMs],
            [chunk |-> a3sChunkToOpenAI(chunk, model, nowMs)])

InitConv ==
    /\ StreamIdle
    /\ NormIdle
    /\ ConvIdle
    /\ UnaryIdle
    /\ ChatIdle

NextConv ==
    \/ (\E r \in RoleInputs : RoleRoundTrip(r))
            /\ UNCHANGED <<streamVars, normVars, clientVars, unaryVars, chatVars>>
    \/ (\E r \in RoleInputs : CallA3sRoleToOpenAI(r))
            /\ UNCHANGED <<streamVars, normVars, clientVars, unaryVars, chatVars>>
    \/ (\E msg \in ConvMessages : CallOpenAIMessageToA3S(msg))
            /\ UNCHANGED <<streamVars, normVars, clientVars, unaryVars, chatVars>>
    \/ (\E msg \in ConvMessages : MessageRoundTrip(msg))
            /\ UNCHANGED <<streamVars, normVars, clientVars, unaryVars, chatVars>>
    \/ (\E tc \in ToolCallInputs : ToolCallRoundTrip(tc))
            /\ UNCHANGED <<streamVars, normVars, clientVars, unaryVars, chatVars>>
    \/ (\E reason \in FinishReasonInputs : CallA3sFinishReasonToOpenAI(reason))
            /\ UNCHANGED <<streamVars, normVars, clientVars, unaryVars, chatVars>>
    \/ (\E usage \in UsageInputs : CallA3sUsageToOpenAI(usage))
            /\ UNCHANGED <<streamVars, normVars, clientVars, unaryVars, chatVars>>
    \/ (\E response \in ResponseInputs, model \in ModelLabels,
            nowMs \in {1999, 2000} : CallA3sResponseToOpenAI(response, model, nowMs))
            /\ UNCHANGED <<streamVars, normVars, clientVars, unaryVars, chatVars>>
    \/ (\E chunk \in ChunkInputs, model \in ModelLabels,
            nowMs \in {1999, 2000} : CallA3sChunkToOpenAI(chunk, model, nowMs))
            /\ UNCHANGED <<streamVars, normVars, clientVars, unaryVars, chatVars>>

SpecConv == InitConv /\ [][NextConv]_vars

-----------------------------------------------------------------------------
(* Response Projector on objects: the native response or chunk refers to its   *)
(* message and tool calls by identity, and the projection allocates the objects *)
(* it builds on the same heap.                                                  *)

\* a native Message object; tool_calls is the field an assignment could add to it
NativeMessageObjects ==
    {[role |-> "assistant", content |-> StringContent("hello"), name |-> Absent,
      metadata |-> Absent, tool_calls |-> Absent],
     [role |-> "tool", content |-> StringContent("out"), name |-> Absent,
      metadata |-> Some({<<"name", "bob">>}), tool_calls |-> Absent]}

\* native ToolCall objects
NativeToolCallObjects ==
    {[id |-> "call_1", name |-> "read", arguments |-> "{\"path\":\"a\"}", result |-> Absent],
     [id |-> "call_2", name |-> "ls", arguments |-> "not json {", result |-> Some("ok")]}

IsMessageObject(obj) == "role" \in DOMAIN obj

\* heaps of a native response or chunk: its message, if any, then its tool calls
ProjHeaps ==
    {message \o toolCalls :
        message \in {<<>>} \cup {<<m>> : m \in NativeMessageObjects},
        toolCalls \in UNION {[1..n -> NativeToolCallObjects] : n \in 0..MaxToolCalls}}

\* the identities of the tool call objects of heap h
ToolCallRefs(h) ==
    LET first == IF h # <<>> /\ IsMessageObject(h[1]) THEN 2 ELSE 1
    IN  [i \in 1..(Len(h) - first + 1) |-> first + i - 1]

\* the native responses whose message and tool calls are the objects of heap h
ResponsesOver(h) ==
    [sessionId : {"s1"},
     message : IF h # <<>> /\ IsMessageObject(h[1]) THEN {Some(1)} ELSE {Absent},
     toolCalls : {Some(ToolCallRefs(h))} \cup (IF ToolCallRefs(h) = <<>> THEN {Absent} ELSE {}),
     usage : {Absent, Some([promptTokens |-> Some(5), completionTokens |-> Absent,
                            totalTokens |-> Absent])},
     finishReason : {"stop", "tool_calls"}]

\* the native chunks whose tool call, if any, is an object of heap h
ChunksOver(h) ==
    [type : ChunkTypes,
     sessionId : {"s1"},
     content : {"", "hi"},
     toolCall : {Absent} \cup {Some(ToolCallRefs(h)[i]) : i \in DOMAIN ToolCallRefs(h)},
     finishReason : {Absent, Some("stop")}]

\* the object a3sMessageToOpenAI allocates, or the placeholder object literal
NewOpenAIMessage(h, response) ==
    LET message == IF response.message # Absent
                   THEN a3sMessageToOpenAI(h[response.message[1]])
                   ELSE [role |-> "assistant", content |-> StringContent(""),
                         name |-> Absent, metadata |-> Absent]
    IN  [role |-> message.role, content |-> message.content, name |-> message.name,
         metadata |-> Absent, tool_calls |-> Absent]

\* a faulty variant: the native message object itself is used as the OpenAI message,
\* so that the assignment of tool_calls writes into it
a3sResponseToOpenAIInPlace(h, response, model, nowMs) ==
    LET h1  == IF response.message # Absent THEN h ELSE Append(h, NewOpenAIMessage(h, response))
        ref == IF response.message # Absent THEN response.message[1] ELSE Len(h) + 1
        h2  == IF response.toolCalls # Absent /\ Len(response.toolCalls[1]) > 0
               THEN [h1 EXCEPT ![ref].tool_calls =
                        Some(ToolCallsToOpenAI([i \in DOMAIN response.toolCalls[1] |->
                                                    h[response.toolCalls[1][i]]]))]
               ELSE h1
    IN  [heap |-> h2,
         completion |->
            [id |-> "chatcmpl-" \o response.sessionId,
             object |-> "chat.completion",
             created |-> nowMs \div 1000,
             model |-> IF model = Absent THEN "unknown" ELSE model[1],
             choices |-> <<[index |-> 0, message |-> ref,
                            finish_reason |-> a3sFinishReasonToOpenAI(response.finishReason)]>>,
             usage |-> a3sUsageToOpenAI(response.usage)]]

\* a3sResponseToOpenAI on heap h: the heap afterwards and the completion, whose
\* message is the identity of the new message object; message.tool_calls = ... is an
\* assignment to that object
a3sResponseToOpenAIObj(h, response, model, nowMs) ==
    LET h1  == Append(h, NewOpenAIMessage(h, response))
        ref == Len(h) + 1
        h2  == IF response.toolCalls # Absent /\ Len(response.toolCalls[1]) > 0
               THEN [h1 EXCEPT ![ref].tool_calls =
                        Some(ToolCallsToOpenAI([i \in DOMAIN response.toolCalls[1] |->
                                                    h[response.toolCalls[1][i]]]))]
               ELSE h1
    IN  [heap |-> h2,
         completion |->
            [id |-> "chatcmpl-" \o response.sessionId,
             object |-> "chat.completion",
             created |-> nowMs \div 1000,
             model |-> IF model = Absent THEN "unknown" ELSE model[1],
             choices |-> <<[index |-> 0, message |-> ref,
                            finish_reason |-> a3sFinishReasonToOpenAI(response.finishReason)]>>,
             usage |-> a3sUsageToOpenAI(response.usage)]]

\* a3sChunkToOpenAI on heap h: the element of delta.tool_calls is a new object
a3sChunkToOpenAIObj(h, chunk, model, nowMs) ==
    LET hasCall == chunk.type = "tool_call" /\ chunk.toolCall # Absent
        h1 == IF hasCall THEN Append(h, ToolCallDelta(h[chunk.toolCall[1]])) ELSE h
    IN  [heap |-> h1,
         chunk |->
            [id |-> "chatcmpl-" \o chunk.sessionId,
             object |-> "chat.completion.chunk",
             created |-> nowMs \div 1000,
             model |-> IF model = Absent THEN "unknown" ELSE model[1],
             choices |-> <<[index |-> 0,
                            delta |-> [content |-> IF chunk.type = "content" /\ chunk.content # ""
                                                   THEN Some(chunk.content) ELSE Absent,
                                       tool_calls |-> IF hasCall THEN Some(<<Len(h) + 1>>)
                                                      ELSE Absent],
                            finish_reason |-> ChunkFinishReason(chunk)]>>]]

\* a caller projects a completed response
ProjectResponse(response, model, nowMs) ==
    /\ pc = "call"
    /\ LET r == a3sResponseToOpenAIObj(heap, response, model, nowMs)
       IN  /\ heap' = r.heap
           /\ output' = <<r.completion.choices[1].message>>
           /\ convRes' = [projected |-> r.completion]
    /\ convOp' = "projectResponse"
    /\ convArg' = [native |-> response, model |-> model, nowMs |-> nowMs]
    /\ pc' = "done"
    /\ UNCHANGED <<input, inputHeap, method>>

\* a caller projects one chunk of a stream
ProjectChunk(chunk, model, nowMs) ==
    /\ pc = "call"
    /\ LET r == a3sChunkToOpenAIObj(heap, chunk, model, nowMs)
       IN  /\ heap' = r.heap
           /\ output' = IF r.chunk.choices[1].delta.tool_calls = Absent THEN <<>>
                         ELSE r.chunk.choices[1].delta.tool_calls[1]
           /\ convRes' = [projectedChunk |-> r.chunk]
    /\ convOp' = "projectChunk"
    /\ convArg' = [nativeChunk |-> chunk, model |-> model, nowMs |-> nowMs]
    /\ pc' = "done"
    /\ UNCHANGED <<input, inputHeap, method>>

InitProj ==
    /\ StreamIdle
    /\ ConvIdle
    /\ UnaryIdle
    /\ ChatIdle
    /\ heap \in ProjHeaps
    /\ input = [i \in 1..Len(heap) |-> i]
    /\ inputHeap = heap
    /\ output = <<>>
    /\ pc = "call"

NextProj ==
    \/ (\E response \in ResponsesOver(heap), model \in ModelLabels, nowMs \in {2000} :
            ProjectResponse(response, model, nowMs))
            /\ UNCHANGED <<streamVars, unaryVars, chatVars>>
    \/ (\E chunk \in ChunksOver(heap), model \in ModelLabels, nowMs \in {2000} :
            ProjectChunk(chunk, model, nowMs))
            /\ UNCHANGED <<streamVars, unaryVars, chatVars>>

SpecProj == InitProj /\ [][NextProj]_vars

-----------------------------------------------------------------------------
(* Unary RPC wrappers: A3sClient.promisify *)

UnaryMethods == {"healthCheck", "getSession"}
\* what the transport hands to the callback as response; undefined with an error
UnaryResponses == {"r1", "r2", Undefined}

\* a promise returned by promisify
UnaryPending == [state |-> "pending", value |-> Undefined, reason |-> NoError]

\* resolve(response): settles a pending promise, no-op otherwise
ResolveWith(p, response) ==
    IF p.state = "pending"
    THEN [state |-> "fulfilled", value |-> response, reason |-> NoError]
    ELSE p

\* reject(error): settles a pending promise, no-op otherwise
RejectWith(p, error) ==
    IF p.state = "pending"
    THEN [state |-> "rejected", value |-> Undefined, reason |-> error]
    ELSE p

\* a faulty variant: resolve is called before the error is looked at
PromisifyCallbackResolveFirst(p, error, response) ==
    LET q == ResolveWith(p, response)
    IN  IF error # NoError THEN RejectWith(q, error) ELSE q

\* (error, response) => { if (error) reject(error); else resolve(response); }
PromisifyCallback(p, error, response) ==
    IF error # NoError THEN RejectWith(p, error) ELSE ResolveWith(p, response)

\* promisify(method, request): a new promise; the request is handed to the transport
\* together with the callback
Promisify(m) ==
    /\ Len(unary) < MaxUnaryCalls
    /\ unary' = Append(unary, [method |-> m, called |-> FALSE, error |-> NoError,
                                response |-> Undefined, promise |-> UnaryPending])

\* the transport completes the i-th call: it invokes the callback, once
TransportCallback(i, error, response) ==
    /\ ~unary[i].called
    /\ unary' = [unary EXCEPT ![i] =
                    [method |-> unary[i].method, called |-> TRUE, error |-> error,
                     response |-> response,
                     promise |-> PromisifyCallback(unary[i].promise, error, response)]]

InitUnary ==
    /\ StreamIdle
    /\ NormIdle
    /\ ConvIdle
    /\ UnaryIdle
    /\ ChatIdle

NextUnary ==
    \/ (\E m \in UnaryMethods : Promisify(m))
            /\ UNCHANGED <<streamVars, normVars, clientVars, convVars, chatVars>>
    \/ (\E i \in DOMAIN unary, error \in {NoError} \cup Errors, response \in UnaryResponses :
            TransportCallback(i, error, response))
            /\ UNCHANGED <<streamVars, normVars, clientVars, convVars, chatVars>>

SpecUnary == InitUnary /\ [][NextUnary]_vars

-----------------------------------------------------------------------------
(* Client calls that accept caller-supplied messages (A3sClient) *)

\* const normalizedMessages = normalizeMessages(messages); the request handed to the
\* transport carries messages: normalizedMessages
SendNormalized(m) ==
    /\ pc = "call"
    /\ LET r == normalizeMessages(heap, input)
       IN  /\ heap' = r.heap
           /\ output' = r.result
    /\ pc' = "sent"
    /\ method' = m
    /\ UNCHANGED <<input, inputHeap>>

\* the request handed to the transport carries the caller's array itself
SendAsGiven(m) ==
    /\ pc = "call"
    /\ heap' = heap
    /\ output' = input
    /\ pc' = "sent"
    /\ method' = m
    /\ UNCHANGED <<input, inputHeap>>

\* createSession: initialContext: initialContext || []
CreateSession == SendAsGiven("createSession")

Generate == SendNormalized("generate")

\* a faulty variant: the messages reach the transport without normalization
StreamGenerateRaw == SendAsGiven("streamGenerate")

StreamGenerate == SendNormalized("streamGenerate")

GenerateStructured == SendNormalized("generateStructured")

StreamGenerateStructured == SendNormalized("streamGenerateStructured")

\* chatCompletion: await this.generate(sessionId, messages)
ChatCompletion == SendNormalized("chatCompletion")

\* streamChatCompletion: for await (... of this.streamGenerate(sessionId, messages))
StreamChatCompletion == SendNormalized("streamChatCompletion")

InitClient == InitNorm

NextClient ==
    \/ CreateSession /\ UNCHANGED <<streamVars, convVars, unaryVars, chatVars>>
    \/ Generate /\ UNCHANGED <<streamVars, convVars, unaryVars, chatVars>>
    \/ StreamGenerate /\ UNCHANGED <<streamVars, convVars, unaryVars, chatVars>>
    \/ GenerateStructured /\ UNCHANGED <<streamVars, convVars, unaryVars, chatVars>>
    \/ StreamGenerateStructured /\ UNCHANGED <<streamVars, convVars, unaryVars, chatVars>>
    \/ ChatCompletion /\ UNCHANGED <<streamVars, convVars, unaryVars, chatVars>>
    \/ StreamChatCompletion /\ UNCHANGED <<streamVars, convVars, unaryVars, chatVars>>

SpecClient == InitClient /\ [][NextClient]_vars

-----------------------------------------------------------------------------
(* streamChatCompletion: an async generator whose for-await loop runs over the   *)
(* iterable of streamGenerate and yields the projection of each chunk.  An async *)
(* generator answers its next() requests one at a time, in order: a request made *)
(* while it is awaiting is queued.                                               *)

\* the native chunks the transport emits, by the name of the item
NativeChunkOf ==
    [x \in Items |->
        CASE x = "x1" -> [type |-> "content", sessionId |-> "s1", content |-> "hi",
                          toolCall |-> Absent, finishReason |-> Absent]
          [] x = "x2" -> [type |-> "tool_call", sessionId |-> "s1", content |-> "",
                          toolCall |-> Some([id |-> "call_1", name |-> "read",
                                             arguments |-> "{}", result |-> Absent]),
                          finishReason |-> Absent]
          [] OTHER    -> [type |-> "tool_result", sessionId |-> "s1", content |-> "",
                          toolCall |-> Absent, finishReason |-> Absent]]

\* Date.now() at the time of a yield
ChatNowMs == 2000

\* a faulty variant: a chunk whose delta is empty is not yielded
ChatYieldSkipEmpty(yielded, item, model) ==
    LET c == a3sChunkToOpenAI(NativeChunkOf[item], model, ChatNowMs)
    IN  IF c.choices[1].delta = [content |-> Absent, tool_calls |-> Absent]
        THEN yielded
        ELSE Append(yielded, c)

\* yield a3sChunkToOpenAI(chunk, options?.model)
ChatYield(yielded, item, model) ==
    Append(yielded, a3sChunkToOpenAI(NativeChunkOf[item], model, ChatNowMs))

\* the generator is suspended, at its start or at a yield: no request is being served
GenIdle == chat.finished = "no" /\ chat.queue = <<>>

\* the requests left in the queue of a finished generator: a next() is answered done
\* and a throw() is rejected at once; a return() awaits its value first, and the
\* requests behind it wait with it
RECURSIVE Drain(_)
Drain(q) ==
    IF q = <<>> \/ Head(q) = "return" THEN q ELSE Drain(Tail(q))

\* the consumer of streamChatCompletion calls next() on the generator.  The first
\* next() starts the body: streamGenerate normalizes the messages and opens the
\* stream, and the loop calls the iterator's next().  A generator suspended at a yield
\* goes on to the loop's next next(); a generator serving a request queues this one
\* behind it; a finished one answers done
ChatNext ==
    /\ chat.requested < MaxChatCalls
    /\ \/ /\ GenIdle /\ pc = "call"
          /\ SendNormalized("streamChatCompletion")
          /\ NextCall
          /\ awaited' = Len(promises) + 1
          /\ chat' = [chat EXCEPT !.requested = @ + 1, !.queue = <<"next">>]
       \/ /\ GenIdle /\ pc = "sent"
          /\ NextCall
          /\ awaited' = Len(promises) + 1
          /\ chat' = [chat EXCEPT !.requested = @ + 1, !.queue = <<"next">>]
          /\ UNCHANGED <<normVars, clientVars>>
       \/ /\ chat.queue # <<>>
          /\ chat' = [chat EXCEPT !.requested = @ + 1, !.queue = Append(@, "next")]
          /\ UNCHANGED <<streamVars, normVars, clientVars>>
       \/ /\ chat.finished # "no" /\ chat.queue = <<>>
          /\ chat' = [chat EXCEPT !.requested = @ + 1]
          /\ UNCHANGED <<streamVars, normVars, clientVars>>

\* the consumer calls return() or throw() on the generator (a break in its own
\* for-await loop calls return()).  A return() awaits its value before the generator
\* finishes, so it stays queued for now.  A throw() into a suspended generator
\* finishes it in the same job: the exception leaves the loop, and the adapter's
\* iterator has no return() to be called; a finished generator rejects it.  A
\* generator serving a request queues this one behind it
ChatClose(kind) ==
    /\ Len(SelectSeq(chat.queue, LAMBDA q : q # "next")) < MaxCloses
    /\ LET first == IF chat.closed = "no" THEN kind ELSE chat.closed
       IN  \/ /\ chat.queue = <<>> /\ kind = "return"
              /\ chat' = [chat EXCEPT !.closed = first, !.queue = <<"return">>]
              /\ UNCHANGED streamVars
           \/ /\ chat.queue = <<>> /\ kind = "throw" /\ chat.finished = "no"
              /\ chat' = [chat EXCEPT !.closed = first, !.finished = "done"]
              /\ consumer' = IF pc = "sent" THEN "abandoned" ELSE consumer
              /\ UNCHANGED <<listeners, promises, emitted, transport, transportError,
                             thrown, overlapped, awaited>>
           \/ /\ chat.queue = <<>> /\ kind = "throw" /\ chat.finished # "no"
              /\ chat' = [chat EXCEPT !.closed = first]
              /\ UNCHANGED streamVars
           \/ /\ chat.queue # <<>>
              /\ chat' = [chat EXCEPT !.closed = first, !.queue = Append(@, kind)]
              /\ UNCHANGED streamVars

\* the value awaited for the return() at the head of the queue has settled, one
\* generation of microtasks after the return() was taken up: the generator finishes,
\* leaving its loop if it was in it, the return() is answered done, and the requests
\* behind it are answered up to the next return()
ChatFinish ==
    /\ chat.queue # <<>>
    /\ Head(chat.queue) = "return"
    /\ chat' = [chat EXCEPT !.queue = Drain(Tail(@)),
                            !.finished = IF @ = "no" THEN "done" ELSE @]
    /\ consumer' = IF chat.finished = "no" /\ pc = "sent" THEN "abandoned" ELSE consumer
    /\ UNCHANGED <<listeners, promises, emitted, transport, transportError,
                   thrown, overlapped, awaited>>

\* the promise the loop awaits has settled and the generator continues, in a later
\* microtask: with a chunk it yields the projection, which answers the request being
\* served, and then takes up the next queued request (a next(): the loop's next
\* next(); a return(): it awaits the value; a throw(): the generator finishes); with
\* done the loop and the generator end; a rejection is thrown out of the loop and the
\* generator
ChatResume ==
    /\ chat.finished = "no"
    /\ awaited # 0
    /\ promises[awaited].state # "pending"
    /\ LET p == promises[awaited]
           rest == Tail(chat.queue)
       IN  \/ /\ p.state = "fulfilled" /\ ~p.done
              /\ IF rest = <<>> THEN TRUE ELSE Head(rest) = "return"
              /\ chat' = [chat EXCEPT !.consumed = @ + 1, !.queue = rest,
                             !.yielded = ChatYield(@, p.value, chat.model)]
              /\ awaited' = 0
              /\ UNCHANGED <<listeners, promises, emitted, transport, transportError,
                             consumer, thrown, overlapped>>
           \/ /\ p.state = "fulfilled" /\ ~p.done
              /\ rest # <<>> /\ Head(rest) = "next"
              /\ chat' = [chat EXCEPT !.consumed = @ + 1, !.queue = rest,
                             !.yielded = ChatYield(@, p.value, chat.model)]
              /\ NextCall
              /\ awaited' = Len(promises) + 1
           \/ /\ p.state = "fulfilled" /\ ~p.done
              /\ rest # <<>> /\ Head(rest) = "throw"
              /\ chat' = [chat EXCEPT !.consumed = @ + 1, !.queue = Drain(Tail(rest)),
                             !.yielded = ChatYield(@, p.value, chat.model),
                             !.finished = "done"]
              /\ consumer' = "abandoned"
              /\ awaited' = 0
              /\ UNCHANGED <<listeners, promises, emitted, transport, transportError,
                             thrown, overlapped>>
           \/ /\ p.state = "fulfilled" /\ p.done
              /\ chat' = [chat EXCEPT !.consumed = @ + 1, !.queue = Drain(rest),
                             !.finished = "done"]
              /\ consumer' = "completed"
              /\ awaited' = 0
              /\ UNCHANGED <<listeners, promises, emitted, transport, transportError,
                             thrown, overlapped>>
           \/ /\ p.state = "rejected"
              /\ chat' = [chat EXCEPT !.consumed = @ + 1, !.queue = Drain(rest),
                             !.finished = "threw"]
              /\ consumer' = "threw"
              /\ thrown' = p.reason
              /\ awaited' = 0
              /\ UNCHANGED <<listeners, promises, emitted, transport, transportError,
                             overlapped>>

\* the messages handed to streamChatCompletion
ChatMsgLists ==
    {<<>>} \cup {<<m>> : m \in {o \in OpenAIInputs :
                                    o.role = "function" /\ o.content = StringContent("hi")}}

\* streamChatCompletion(sessionId, messages, options) has returned the generator; its
\* body has not started
InitChat ==
    /\ StreamIdle
    /\ ConvIdle
    /\ UnaryIdle
    /\ heap \in ChatMsgLists
    /\ input = [i \in 1..Len(heap) |-> i]
    /\ inputHeap = heap
    /\ output = <<>>
    /\ pc = "call"
    /\ chat \in [called : {TRUE}, model : ModelLabels, requested : {0}, queue : {<<>>},
                  consumed : {0}, yielded : {<<>>}, finished : {"no"}, closed : {"no"}]

\* the transport emits only on the stream that the first next() has opened
NextChat ==
    \/ ChatNext /\ UNCHANGED <<convVars, unaryVars>>
    \/ (\E kind \in {"return", "throw"} : ChatClose(kind))
            /\ UNCHANGED <<normVars, clientVars, convVars, unaryVars>>
    \/ ChatFinish /\ UNCHANGED <<normVars, clientVars, convVars, unaryVars>>
    \/ ChatResume /\ UNCHANGED <<normVars, clientVars, convVars, unaryVars>>
    \/ (pc = "sent" /\ Len(emitted) < MaxChunks /\ \E d \in Items : EmitData(d))
            /\ UNCHANGED <<normVars, clientVars, convVars, unaryVars, chatVars>>
    \/ (pc = "sent" /\ EmitEnd)
            /\ UNCHANGED <<normVars, clientVars, convVars, unaryVars, chatVars>>
    \/ (pc = "sent" /\ \E e \in Errors : EmitError(e))
            /\ UNCHANGED <<normVars, clientVars, convVars, unaryVars, chatVars>>

SpecChat == InitChat /\ [][NextChat]_vars

-----------------------------------------------------------------------------
(* Properties of the Stream Adapter, under SpecStream *)

\* a next() settled by 'end' (done) or by 'error' (rejection)
Terminal(p) == p.state = "rejected" \/ (p.state = "fulfilled" /\ p.done)

\* the items the next() calls returned, in call order
Delivered ==
    LET got == SelectSeq(promises, LAMBDA p : p.state = "fulfilled" /\ ~p.done)
    IN  [i \in DOMAIN got |-> got[i].value]

NoListeners == \A k \in Kinds : listeners[k] = <<>>

\* C1: once a next() has been settled by 'end' or 'error', every later next() on the
\* same iterator is settled with the same terminal outcome and is never left pending
C1_TerminalIdempotence ==
    \A i, j \in DOMAIN promises :
        (i < j /\ Terminal(promises[i])) => promises[j] = promises[i]

\* C2: a consumer that issues next() only after the previous one settled and that has
\* been told done has received exactly the items the transport emitted, in order
C2_CompleteOrderedDelivery ==
    (~overlapped /\ consumer = "completed") => Delivered = emitted

\* C3: once the transport has emitted 'end' or 'error' no next() is left pending: a
\* next() issued after the terminal event reports it instead of waiting forever
C3_EveryNextSettles ==
    transport # "open" => Pending(promises) = {}

\* C4: while exactly one next() is outstanding the first event settles it according
\* to its kind (data d: value d, not done; end: done; error e: rejected with e), and
\* no event changes the outcome of a next() that is already settled
C4_FirstEventSettlesOnce ==
    [][\A p \in DOMAIN promises :
        /\ promises[p].state # "pending" => promises'[p] = promises[p]
        /\ Pending(promises) = {p} =>
            /\ Len(emitted') > Len(emitted) =>
                promises'[p] = [state |-> "fulfilled", value |-> emitted'[Len(emitted')],
                                done |-> FALSE, reason |-> NoError]
            /\ (transport = "open" /\ transport' = "ended") =>
                promises'[p] = [state |-> "fulfilled", value |-> Undefined,
                                done |-> TRUE, reason |-> NoError]
            /\ (transport = "open" /\ transport' = "errored") =>
                promises'[p] = [state |-> "rejected", value |-> Undefined,
                                done |-> FALSE, reason |-> transportError']]_vars

\* C4 witness: the first next() was settled by a data event, a later 'end' ran while the
\* first call's end listener was still registered, and settled the second next() alone
C4_Witness ==
    /\ Len(promises) >= 2
    /\ promises[1].state = "fulfilled" /\ ~promises[1].done /\ promises[1].value \in Items
    /\ promises[2].state = "fulfilled" /\ promises[2].done
    /\ transport = "ended"
    /\ ~overlapped

\* C5: after the consumer abandoned the loop before 'end' or 'error' fired, no
\* listener of the adapter remains registered on the stream handle
C5_AbandonReleasesListeners ==
    (consumer = "abandoned" /\ transport = "open") => NoListeners

\* C6: every registered listener belongs to a next() that has not settled yet, a
\* single consumer leaves at most one listener per event kind, and none is left
\* after normal completion
C6_ListenersMatchPendingCalls ==
    /\ \A k \in Kinds : \A n \in DOMAIN listeners[k] :
            promises[listeners[k][n]].state = "pending"
    /\ ~overlapped => \A k \in Kinds : Len(listeners[k]) <= 1
    /\ consumer = "completed" => NoListeners

\* C7: an 'error' event with error e rejects every outstanding next() with exactly e,
\* and the for-await loop awaiting a promise rejected so ends, when it continues, by
\* throwing that same e
C7_ErrorVerbatim ==
    [][/\ (transport = "open" /\ transport' = "errored") =>
            /\ transportError' \in Errors
            /\ \A p \in Pending(promises) :
                    promises'[p] = [state |-> "rejected", value |-> Undefined,
                                    done |-> FALSE, reason |-> transportError']
       /\ (consumer = "iterating" /\ awaited # 0 /\ awaited' # awaited
                /\ promises[awaited].state = "rejected") =>
            (consumer' = "threw" /\ thrown' = transportError /\ thrown' \in Errors)
       /\ (consumer = "iterating" /\ consumer' = "threw") =>
            (awaited # 0 /\ promises[awaited].state = "rejected")]_vars

\* C7 witness: after an earlier item was delivered, error e2 fired while the second
\* next() was outstanding and the loop threw it
C7_Witness ==
    /\ Len(promises) = 2
    /\ promises[1].state = "fulfilled"
    /\ promises[2].state = "rejected" /\ promises[2].reason = "e2"
    /\ consumer = "threw" /\ thrown = "e2"

-----------------------------------------------------------------------------
(* Properties of the Message Normalizer, under SpecNorm *)

\* a message in the native shape { role, content, metadata? } with one of the four roles
NativeShaped(m) ==
    /\ m.role \in NativeRoles
    /\ m.content.type = "string"
    /\ m.name = Absent

\* C8: a native-shaped message comes out of normalization with the same role, the
\* same content and the same metadata
C8_NativeUntouched ==
    pc = "done" =>
        \A i \in DOMAIN input :
            NativeShaped(inputHeap[input[i]]) =>
                /\ heap[output[i]].role = inputHeap[input[i]].role
                /\ heap[output[i]].content = inputHeap[input[i]].content
                /\ heap[output[i]].metadata = inputHeap[input[i]].metadata

\* C9: the output list has the length of the input list and its i-th element is the
\* normalization of the i-th input element
C9_NoDropOrderKept ==
    pc = "done" =>
        /\ Len(output) = Len(input)
        /\ \A i \in DOMAIN input :
                heap[output[i]] =
                    IF isOpenAIFormat(inputHeap[input[i]])
                    THEN openAIMessageToA3S(inputHeap[input[i]])
                    ELSE inputHeap[input[i]]

\* C9 witness: a list of two different messages, one converted and one passed
\* through, has been normalized
C9_Witness ==
    /\ pc = "done"
    /\ Len(input) = 2
    /\ inputHeap[1].role = "ROLE_USER"
    /\ inputHeap[2].role = "function"
    /\ inputHeap[2].content.type = "array"
    /\ heap[output[2]].content = StringContent("a\nb")

\* C10: after normalizeMessages every input object is as it was, and no element of
\* the output is the same object as an input message
C10_InputsKeptOutputsFresh ==
    pc = "done" =>
        /\ \A o \in DOMAIN inputHeap : heap[o] = inputHeap[o]
        /\ \A i \in DOMAIN output : output[i] \notin Range(input)

\* C11: a message is converted with openAIMessageToA3S (a new object holding the
\* conversion) if and only if its role is user, assistant, system, tool or function;
\* a message with any other role is returned as it is
C11_ClassificationRule ==
    pc = "done" =>
        \A i \in DOMAIN input :
            LET m == inputHeap[input[i]]
            IN  IF m.role \in {"user", "assistant", "system", "tool", "function"}
                THEN /\ output[i] \notin Range(input)
                     /\ heap[output[i]] = openAIMessageToA3S(m)
                ELSE /\ output[i] = input[i]
                     /\ heap[output[i]] = m

\* C11 witness: a list holding a 'function' message and a message with another role
\* has been normalized
C11_Witness ==
    /\ pc = "done"
    /\ Len(input) = 2
    /\ inputHeap[1].role = "function"
    /\ inputHeap[2].role = "USER"
    /\ output = <<3, 2>>

\* C12: a message with role user, assistant, system or tool and plain string content
\* is normalized to a message with the same role token and the same content
C12_CommonCasePassThrough ==
    pc = "done" =>
        \A i \in DOMAIN input :
            LET m == inputHeap[input[i]]
            IN  (m.role \in {"user", "assistant", "system", "tool"}
                    /\ m.content.type = "string") =>
                    /\ heap[output[i]].role = m.role
                    /\ heap[output[i]].content = StringContent(m.content.str)

\* C12 witness: [{role: "user", content: "hi"}] was normalized to a message with
\* role "user" and content "hi"
C12_Witness ==
    /\ pc = "done"
    /\ Len(input) = 1
    /\ inputHeap[1] = [role |-> "user", content |-> StringContent("hi"),
                       name |-> Absent, metadata |-> Absent]
    /\ heap[output[1]].role = "user"
    /\ heap[output[1]].content.str = "hi"

-----------------------------------------------------------------------------
(* Properties of the client calls, under SpecClient *)

\* the messages of a list of object identities, by value
ValuesOf(h, refs) == [i \in DOMAIN refs |-> h[refs[i]]]

\* what the Message Normalizer makes of the caller's messages
NormalizedInput ==
    LET r == normalizeMessages(inputHeap, input)
    IN  ValuesOf(r.heap, r.result)

\* C13 as claimed: whatever the method, createSession included, the messages handed
\* to the transport are the caller's messages after normalization
C13_EveryCallNormalizes ==
    pc = "sent" => ValuesOf(heap, output) = NormalizedInput

\* C13 as amended: generate, streamGenerate, generateStructured,
\* streamGenerateStructured, chatCompletion and streamChatCompletion hand the
\* normalized messages to the transport; createSession hands over initialContext
\* as the caller gave it
C13_MessageCallsNormalize ==
    pc = "sent" =>
        IF method = "createSession"
        THEN output = input /\ heap = inputHeap
        ELSE ValuesOf(heap, output) = NormalizedInput

\* C13 witness: streamGenerate sent a list whose normalization differs from the list
C13_Witness ==
    /\ pc = "sent"
    /\ method = "streamGenerate"
    /\ Len(input) = 2
    /\ inputHeap[1].role = "function"
    /\ heap[output[1]].role = "tool"
    /\ ValuesOf(heap, output) # ValuesOf(inputHeap, input)

-----------------------------------------------------------------------------
(* Properties of the Schema Converter, under SpecConv *)

\* C14: for every role r among user, assistant, system and tool,
\* a3sRoleToOpenAI(openAIRoleToA3S(r)) = r
C14_RoleRoundTrip ==
    (convOp = "roleRoundTrip" /\ convArg.role \in {"user", "assistant", "system", "tool"}) =>
        convRes.role = convArg.role

\* C14 witness: the role tool went through both conversions
C14_Witness ==
    convOp = "roleRoundTrip" /\ convArg.role = "tool" /\ convRes.role = "tool"

\* C15: a3sRoleToOpenAI maps every native role outside user, assistant, system and
\* tool to "user"
C15_RoleFallback ==
    (convOp = "a3sRoleToOpenAI" /\ convArg.role \notin {"user", "assistant", "system", "tool"}) =>
        convRes.role = "user"

\* C15 witness: the unknown sentinel was converted
C15_Witness ==
    convOp = "a3sRoleToOpenAI" /\ convArg.role = "ROLE_UNKNOWN" /\ convRes.role = "user"

\* the text-typed parts of a part sequence, taken from the front, joined by newlines
RECURSIVE CollapsedText(_)
CollapsedText(parts) ==
    IF parts = <<>> THEN ""
    ELSE IF Head(parts).type # "text" THEN CollapsedText(Tail(parts))
    ELSE IF \A i \in DOMAIN Tail(parts) : Tail(parts)[i].type # "text"
         THEN Head(parts).text
         ELSE Head(parts).text \o "\n" \o CollapsedText(Tail(parts))

\* C16: for content that is a sequence of parts, the converted content is the text of
\* the text-typed parts in their original order joined by a newline; other parts
\* contribute nothing and no text part gives the empty string
C16_PartCollapsing ==
    (convOp = "openAIMessageToA3S" /\ convArg.msg.content.type = "array") =>
        /\ convRes.msg.content = StringContent(CollapsedText(convArg.msg.content.parts))
        /\ (\A i \in DOMAIN convArg.msg.content.parts :
                convArg.msg.content.parts[i].type # "text") => convRes.msg.content.str = ""

\* C16 witness: text b, an image, text a were collapsed to "b\na"
C16_Witness ==
    /\ convOp = "openAIMessageToA3S"
    /\ convArg.msg.content.type = "array"
    /\ convArg.msg.content.parts = <<TextPart("b"), ImagePart("u"), TextPart("a")>>
    /\ convRes.msg.content.str = "b\na"

\* C17: for a message with plain string content, converting to native, back to
\* OpenAI and to native again gives the content of the message
C17_StringContentRoundTrip ==
    (convOp = "messageRoundTrip" /\ convArg.msg.content.type = "string") =>
        /\ convRes.msg.content.type = "string"
        /\ convRes.msg.content.str = convArg.msg.content.str

\* C17 witness: a named message with a two-line string went through the round trip
C17_Witness ==
    /\ convOp = "messageRoundTrip"
    /\ convArg.msg.content = StringContent("a\nb")
    /\ convArg.msg.name = Some("bob")
    /\ convRes.msg.content.str = "a\nb"

\* C18: a native tool call converted to the OpenAI shape and back has the same id,
\* name and arguments, also when the arguments are not valid JSON
C18_ToolCallRoundTrip ==
    convOp = "toolCallRoundTrip" =>
        /\ convRes.toolCall.id = convArg.toolCall.id
        /\ convRes.toolCall.name = convArg.toolCall.name
        /\ convRes.toolCall.arguments = convArg.toolCall.arguments

\* C18 witness: a tool call whose arguments are not JSON went through the round trip
C18_Witness ==
    /\ convOp = "toolCallRoundTrip"
    /\ convArg.toolCall.arguments = "not json {"
    /\ convArg.toolCall.arguments \notin ValidJson
    /\ convRes.toolCall.arguments = "not json {"

\* C19: a3sFinishReasonToOpenAI maps stop, length, tool_calls and content_filter to
\* themselves and every other value, the native error reason included, to null
C19_FinishReasonMapping ==
    convOp = "a3sFinishReasonToOpenAI" =>
        IF convArg.reason \in {"stop", "length", "tool_calls", "content_filter"}
        THEN convRes.finish_reason = JsString(convArg.reason)
        ELSE convRes.finish_reason = JsNull

\* C19 witness: the native error reason was converted to null
C19_Witness ==
    convOp = "a3sFinishReasonToOpenAI" /\ convArg.reason = "error" /\ convRes.finish_reason = JsNull

\* C20 as claimed: the usage conversion of an absent input is null, and so is the
\* usage field of a projected completion whose response has no usage
C20_AbsentUsageIsNull ==
    /\ (convOp = "a3sUsageToOpenAI" /\ convArg.usage = Absent) => convRes.usage = JsNull
    /\ (convOp = "a3sResponseToOpenAI" /\ convArg.response.usage = Absent) =>
            convRes.completion.usage = JsNull

\* C20 as amended: the usage conversion of an absent input is undefined, and so is
\* the usage field of a projected completion whose response has no usage
C20_AbsentUsageIsUndefined ==
    /\ (convOp = "a3sUsageToOpenAI" /\ convArg.usage = Absent) => convRes.usage = JsUndefined
    /\ (convOp = "a3sResponseToOpenAI" /\ convArg.response.usage = Absent) =>
            convRes.completion.usage = JsUndefined

\* C20 witness: a response without usage was projected
C20_Witness ==
    /\ convOp = "a3sResponseToOpenAI"
    /\ convArg.response.usage = Absent
    /\ convRes.completion.usage = JsUndefined

\* C21: the usage conversion of a present input has prompt_tokens, completion_tokens
\* and total_tokens equal to promptTokens, completionTokens and totalTokens, with 0
\* for each field that is missing
C21_UsageRenameZeroDefaults ==
    (convOp = "a3sUsageToOpenAI" /\ convArg.usage # Absent) =>
        LET u == convArg.usage[1]
            o == convRes.usage
        IN  /\ o.t = "object"
            /\ DOMAIN o.v = {"prompt_tokens", "completion_tokens", "total_tokens"}
            /\ o.v.prompt_tokens = (IF u.promptTokens = Absent THEN 0 ELSE u.promptTokens[1])
            /\ o.v.completion_tokens =
                    (IF u.completionTokens = Absent THEN 0 ELSE u.completionTokens[1])
            /\ o.v.total_tokens = (IF u.totalTokens = Absent THEN 0 ELSE u.totalTokens[1])

\* C21 witness: { promptTokens: 5 } was converted to { 5, 0, 0 }
C21_Witness ==
    /\ convOp = "a3sUsageToOpenAI"
    /\ convArg.usage = Some([promptTokens |-> Some(5), completionTokens |-> Absent,
                             totalTokens |-> Absent])
    /\ convRes.usage = JsObject([prompt_tokens |-> 5, completion_tokens |-> 0,
                                 total_tokens |-> 0])

\* C22: the projection of a completed response has id "chatcmpl-" + sessionId, object
\* "chat.completion", exactly one choice, of index 0, holding the converted message and
\* the converted finish reason, the converted usage, and the supplied model label or
\* "unknown" when none is supplied; the message has tool_calls exactly when
\* response.toolCalls is not empty
C22_ResponseProjection ==
    convOp = "a3sResponseToOpenAI" =>
        LET response == convArg.response
            c == convRes.completion
            hasCalls == response.toolCalls # Absent /\ response.toolCalls[1] # <<>>
        IN  /\ c.id = "chatcmpl-" \o response.sessionId
            /\ c.object = "chat.completion"
            /\ Len(c.choices) = 1
            /\ c.choices[1].index = 0
            /\ response.message # Absent =>
                    LET m == a3sMessageToOpenAI(response.message[1])
                    IN  /\ c.choices[1].message.role = m.role
                        /\ c.choices[1].message.content = m.content
                        /\ c.choices[1].message.name = m.name
            /\ c.choices[1].finish_reason = a3sFinishReasonToOpenAI(response.finishReason)
            /\ c.usage = a3sUsageToOpenAI(response.usage)
            /\ c.model = (IF convArg.model = Absent THEN "unknown" ELSE convArg.model[1])
            /\ (c.choices[1].message.tool_calls # Absent) <=> hasCalls
            /\ hasCalls =>
                    /\ Len(c.choices[1].message.tool_calls[1]) = Len(response.toolCalls[1])
                    /\ \A i \in DOMAIN response.toolCalls[1] :
                            c.choices[1].message.tool_calls[1][i] =
                                a3sToolCallToOpenAI(response.toolCalls[1][i])

\* C22 witness: a response with an empty list of tool calls and no model label was
\* projected, without tool_calls and with the label "unknown"
C22_Witness ==
    /\ convOp = "a3sResponseToOpenAI"
    /\ convArg.response.toolCalls = Some(<<>>)
    /\ convArg.response.message # Absent
    /\ convArg.model = Absent
    /\ convRes.completion.model = "unknown"
    /\ convRes.completion.id = "chatcmpl-s2"
    /\ convRes.completion.choices[1].message.tool_calls = Absent

\* C23 as claimed: a content chunk gives a delta with only content set, a tool_call
\* chunk gives a delta whose tool_calls has exactly one element, built from the chunk's
\* tool call, and no delta has both content and tool_calls
C23_DeltaShape ==
    convOp = "a3sChunkToOpenAI" =>
        LET chunk == convArg.chunk
            delta == convRes.chunk.choices[1].delta
        IN  /\ chunk.type = "content" =>
                    delta.content = Some(chunk.content) /\ delta.tool_calls = Absent
            /\ (chunk.type = "tool_call" /\ chunk.toolCall # Absent) =>
                    /\ delta.tool_calls # Absent
                    /\ Len(delta.tool_calls[1]) = 1
                    /\ delta.tool_calls[1][1].id = chunk.toolCall[1].id
                    /\ delta.tool_calls[1][1].function.name = chunk.toolCall[1].name
                    /\ delta.tool_calls[1][1].function.arguments = chunk.toolCall[1].arguments
            /\ ~(delta.content # Absent /\ delta.tool_calls # Absent)

\* C23 as amended: a content chunk with non-empty content gives a delta with only
\* content set, a content chunk with empty content gives an empty delta, a tool_call
\* chunk with a tool call gives a delta with only tool_calls set, of exactly one
\* element built from the tool call, and no delta has both content and tool_calls
C23_DeltaShapeNonEmptyContent ==
    convOp = "a3sChunkToOpenAI" =>
        LET chunk == convArg.chunk
            delta == convRes.chunk.choices[1].delta
        IN  /\ (chunk.type = "content" /\ chunk.content # "") =>
                    delta.content = Some(chunk.content) /\ delta.tool_calls = Absent
            /\ (chunk.type = "content" /\ chunk.content = "") =>
                    delta.content = Absent /\ delta.tool_calls = Absent
            /\ (chunk.type = "tool_call" /\ chunk.toolCall # Absent) =>
                    /\ delta.content = Absent
                    /\ delta.tool_calls # Absent
                    /\ Len(delta.tool_calls[1]) = 1
                    /\ delta.tool_calls[1][1].id = chunk.toolCall[1].id
                    /\ delta.tool_calls[1][1].type = "function"
                    /\ delta.tool_calls[1][1].function.name = chunk.toolCall[1].name
                    /\ delta.tool_calls[1][1].function.arguments = chunk.toolCall[1].arguments
            /\ ~(delta.content # Absent /\ delta.tool_calls # Absent)

\* C23 witness: a tool_call chunk that also has content text was projected
C23_Witness ==
    /\ convOp = "a3sChunkToOpenAI"
    /\ convArg.chunk.type = "tool_call"
    /\ convArg.chunk.content = "hi"
    /\ convArg.chunk.toolCall # Absent
    /\ convRes.chunk.choices[1].delta.content = Absent
    /\ Len(convRes.chunk.choices[1].delta.tool_calls[1]) = 1

\* the chunk is of type done or carries a finish reason
TerminalChunk(chunk) == chunk.type = "done" \/ Truthy(chunk.finishReason)

\* the finish reason a terminal chunk is to be projected with
TerminalReason(chunk) ==
    IF Truthy(chunk.finishReason)
    THEN a3sFinishReasonToOpenAI(chunk.finishReason[1])
    ELSE JsString("stop")

\* C24 as claimed: a chunk of type done, or carrying a finish reason, gives a delta
\* with neither content nor tool_calls and the converted finish reason, "stop" for a
\* done chunk without one; every other chunk gives finish_reason null
C24_TerminalChunk ==
    convOp = "a3sChunkToOpenAI" =>
        LET chunk == convArg.chunk
            choice == convRes.chunk.choices[1]
        IN  IF TerminalChunk(chunk)
            THEN /\ choice.delta.content = Absent
                 /\ choice.delta.tool_calls = Absent
                 /\ choice.finish_reason = TerminalReason(chunk)
            ELSE choice.finish_reason = JsNull

\* C24 as amended: a chunk of type done, or carrying a non-empty finish reason, gives
\* the converted finish reason, "stop" for a done chunk without one, and every other
\* chunk gives finish_reason null; the delta of a done chunk is empty, and so is the
\* delta of any chunk that is neither a content nor a tool_call chunk
C24_TerminalChunkKeepsPayload ==
    convOp = "a3sChunkToOpenAI" =>
        LET chunk == convArg.chunk
            choice == convRes.chunk.choices[1]
        IN  /\ choice.finish_reason =
                    (IF TerminalChunk(chunk) THEN TerminalReason(chunk) ELSE JsNull)
            /\ chunk.type \notin {"content", "tool_call"} =>
                    choice.delta.content = Absent /\ choice.delta.tool_calls = Absent

\* C24 witness: a done chunk without a finish reason, with content text, was projected
\* to an empty delta and "stop"
C24_Witness ==
    /\ convOp = "a3sChunkToOpenAI"
    /\ convArg.chunk.type = "done"
    /\ convArg.chunk.finishReason = Absent
    /\ convArg.chunk.content = "hi"
    /\ convRes.chunk.choices[1].delta = [content |-> Absent, tool_calls |-> Absent]
    /\ convRes.chunk.choices[1].finish_reason = JsString("stop")

\* C25: after a3sResponseToOpenAI or a3sChunkToOpenAI returned, every native object
\* that was passed in (the message and the tool calls) is as it was before the call,
\* and the objects of the result are none of them
C25_NativeObjectsUnchanged ==
    (pc = "done" /\ convOp \in {"projectResponse", "projectChunk"}) =>
        /\ Len(heap) >= Len(inputHeap)
        /\ \A o \in DOMAIN inputHeap : heap[o] = inputHeap[o]
        /\ \A i \in DOMAIN output : output[i] \notin Range(input)

\* C25 witness: a response with a message and tool calls was projected; the projected
\* message has tool_calls and the native message has none
C25_Witness ==
    /\ pc = "done"
    /\ convOp = "projectResponse"
    /\ convArg.native.message = Some(1)
    /\ convArg.native.toolCalls # Absent
    /\ Len(convArg.native.toolCalls[1]) = 2
    /\ heap[output[1]].tool_calls # Absent
    /\ heap[1].tool_calls = Absent

\* C26: the promise of a unary call is pending until the transport calls back; once it
\* has, the promise is fulfilled with the transport's response when the callback had
\* no error, and rejected with the transport's error itself when it had one
C26_UnarySettlesWithOutcome ==
    \A i \in DOMAIN unary :
        LET c == unary[i]
        IN  IF ~c.called THEN c.promise.state = "pending"
            ELSE IF c.error = NoError
                 THEN c.promise.state = "fulfilled" /\ c.promise.value = c.response
                 ELSE c.promise.state = "rejected" /\ c.promise.reason = c.error

\* C26 witness: of two calls, one was answered with a response and the other with an
\* error next to a response
C26_Witness ==
    /\ Len(unary) = 2
    /\ unary[1].promise = [state |-> "fulfilled", value |-> "r1", reason |-> NoError]
    /\ unary[2].called /\ unary[2].error = "e2" /\ unary[2].response = "r2"
    /\ unary[2].promise = [state |-> "rejected", value |-> Undefined, reason |-> "e2"]

\* C27: while the consumer issues next() only after the previous one settled, the items
\* returned grow only by the item of the emission that just happened, at the end: every
\* emission is delivered at most once and in emission order
C27_NoDuplicateNoReorder ==
    [][~overlapped' =>
        \/ Delivered' = Delivered
        \/ /\ Len(emitted') = Len(emitted) + 1
           /\ Delivered' = Append(Delivered, emitted'[Len(emitted')])]_vars

\* C27 witness: a single consumer received the first and the third of three emissions
C27_Witness ==
    /\ ~overlapped
    /\ emitted = <<"x1", "x2", "x3">>
    /\ Delivered = <<"x1", "x3">>

\* C30: when two next() calls are outstanding, one 'data' event settles both with the
\* item emitted, one 'end' settles both as done and one 'error' rejects both with the
\* error emitted; issuing a next() while another is outstanding rejects neither: the
\* new promise is pending and the earlier ones are as they were
C30_OverlappingCallsShareEmission ==
    [][/\ \A i, j \in Pending(promises) : i # j =>
            /\ Len(emitted') > Len(emitted) =>
                    /\ promises'[i] = [state |-> "fulfilled", value |-> emitted'[Len(emitted')],
                                        done |-> FALSE, reason |-> NoError]
                    /\ promises'[j] = promises'[i]
            /\ (transport = "open" /\ transport' = "ended") =>
                    /\ promises'[i] = [state |-> "fulfilled", value |-> Undefined,
                                        done |-> TRUE, reason |-> NoError]
                    /\ promises'[j] = promises'[i]
            /\ (transport = "open" /\ transport' = "errored") =>
                    /\ promises'[i] = [state |-> "rejected", value |-> Undefined,
                                        done |-> FALSE, reason |-> transportError']
                    /\ promises'[j] = promises'[i]
       /\ Len(promises') > Len(promises) =>
            /\ promises'[Len(promises')].state = "pending"
            /\ \A i \in DOMAIN promises : promises'[i] = promises[i]]_vars

\* C30 witness: two next() calls were outstanding together and one emission of x2
\* settled both
C30_Witness ==
    /\ overlapped
    /\ emitted = <<"x2">>
    /\ Len(promises) = 2
    /\ promises[1] = [state |-> "fulfilled", value |-> "x2", done |-> FALSE, reason |-> NoError]
    /\ promises[2] = promises[1]

\* C29: normalizing the list that normalizeMessages returned gives messages equal to
\* the ones it was given, metadata included
C29_NormalizationIdempotent ==
    (pc = "again" /\ convOp = "normalizeMessagesAgain") => convRes.messages = convArg.messages

\* the promises of the loop's next() calls that the generator has dealt with
Handled == SubSeq(promises, 1, chat.consumed)

\* the chunks yielded are, one for one and in order, the projections with the caller's
\* model label of the chunks the loop over streamGenerate received
YieldedOneToOne ==
    LET got == SelectSeq(Handled, LAMBDA p : p.state = "fulfilled" /\ ~p.done)
    IN  /\ Len(chat.yielded) = Len(got)
        /\ \A i \in DOMAIN got :
                chat.yielded[i] =
                    a3sChunkToOpenAI(NativeChunkOf[got[i].value], chat.model, ChatNowMs)

\* the loop over streamGenerate was told done
NativeStreamFinished ==
    \E i \in DOMAIN Handled : Handled[i].state = "fulfilled" /\ Handled[i].done

\* C28 as claimed: the chunks streamChatCompletion has yielded are, one for one and in
\* order, the projections of the chunks the loop over streamGenerate received, and the
\* generator is finished exactly when that loop was told done
C28_ChatStreamOneToOne ==
    chat.called =>
        /\ YieldedOneToOne
        /\ chat.finished = "done" <=> NativeStreamFinished

\* C28 as amended: the chunks yielded are, one for one and in order, the projections
\* of the chunks the loop received; unless the consumer ended the generator with
\* return() or throw(), the generator is finished exactly when the loop was told done;
\* it has thrown exactly when the loop was given a rejection; every next() not yet
\* answered is queued, and the loop never has two next() calls outstanding
C28_ChatStreamOneToOneUnlessClosed ==
    chat.called =>
        /\ YieldedOneToOne
        /\ NativeStreamFinished => chat.finished = "done"
        /\ (chat.finished = "done" /\ chat.closed = "no") => NativeStreamFinished
        /\ chat.finished = "threw" <=>
                \E i \in DOMAIN Handled : Handled[i].state = "rejected"
        /\ chat.finished = "no" =>
                chat.consumed + Len(SelectSeq(chat.queue, LAMBDA q : q = "next"))
                    = chat.requested
        /\ ~overlapped

\* C28 witness: two chunks went through, the first with content and the second with
\* an empty delta, and then the stream ended; the consumer never called return() or
\* throw()
C28_Witness ==
    /\ chat.called
    /\ chat.finished = "done"
    /\ chat.closed = "no"
    /\ chat.model = Absent
    /\ method = "streamChatCompletion"
    /\ Len(chat.yielded) = 2
    /\ chat.yielded[1].choices[1].delta.content = Some("hi")
    /\ chat.yielded[2].choices[1].delta = [content |-> Absent, tool_calls |-> Absent]
    /\ chat.yielded[2].model = "unknown"

====
